---- MODULE Spec2Model ----
(***************************************************************************)
(* KatsEnsemble (models/ensemble/kats_ensemble.py): the decomposition      *)
(* based ensemble forecaster, as a state machine over one ensemble object. *)
(*                                                                         *)
(* Numbers are exact rationals <<num, den>> with den > 0, in lowest terms; *)
(* not-a-number is <<0, 0>>.  A Python dict is a sequence of <<key, value>>*)
(* pairs with pairwise distinct keys, in insertion order.  A model name is *)
(* the sequence of its "_"-separated segments: "prophet_smodel" is         *)
(* <<"prophet", "smodel">>.                                                *)
(***************************************************************************)
EXTENDS Integers, Sequences, FiniteSets, TLC

\* ------------------------------------------------------------------ bounds
MaxLen == 4
MaxSeasonLen == 2
MaxModels == 2
MaxSteps == 2
MaxAggModels == 3

\* -------------------------------------------------------------- rationals
NaN == <<0, 0>>

IsNaN(x) == x[2] = 0

Abs(n) == IF n < 0 THEN -n ELSE n

RECURSIVE GCD(_, _)
GCD(a, b) == IF b = 0 THEN a ELSE GCD(b, a % b)

Rat(n, d) ==
  IF d = 0 THEN NaN
  ELSE LET g == GCD(Abs(n), Abs(d))
           s == IF d < 0 THEN -1 ELSE 1
       IN  <<(s * n) \div g, (s * d) \div g>>

Num(n) == <<n, 1>>

Zero == Num(0)

RAdd(x, y) ==
  IF IsNaN(x) \/ IsNaN(y) THEN NaN
  ELSE Rat(x[1] * y[2] + y[1] * x[2], x[2] * y[2])

RSub(x, y) ==
  IF IsNaN(x) \/ IsNaN(y) THEN NaN
  ELSE Rat(x[1] * y[2] - y[1] * x[2], x[2] * y[2])

RMul(x, y) ==
  IF IsNaN(x) \/ IsNaN(y) THEN NaN
  ELSE Rat(x[1] * y[1], x[2] * y[2])

\* float division: x / 0 is not a finite number
RDiv(x, y) ==
  IF IsNaN(x) \/ IsNaN(y) THEN NaN
  ELSE Rat(x[1] * y[2], x[2] * y[1])

RLess(x, y) == x[1] * y[2] < y[1] * x[2]

\* ------------------------------------------------------------ sequences
Range(s) == {s[i] : i \in 1..Len(s)}

SeqMap(Op(_), s) == [i \in 1..Len(s) |-> Op(s[i])]

RECURSIVE SelectIdx(_, _, _)
SelectIdx(s, Keep(_), i) ==
  IF i > Len(s) THEN <<>>
  ELSE IF Keep(s[i]) THEN <<s[i]>> \o SelectIdx(s, Keep, i + 1)
       ELSE SelectIdx(s, Keep, i + 1)

Filter(s, Keep(_)) == SelectIdx(s, Keep, 1)

SeqsUpTo(S, n) == UNION {[1..k -> S] : k \in 0..n}

\* ------------------------------------------------------------------ dicts
EmptyDict == <<>>

DictKeys(d) == [i \in 1..Len(d) |-> d[i][1]]

DictValues(d) == [i \in 1..Len(d) |-> d[i][2]]

DictHas(d, k) == \E i \in 1..Len(d) : d[i][1] = k

DictGet(d, k) == d[CHOOSE i \in 1..Len(d) : d[i][1] = k][2]

\* d[k] = v: an existing key keeps its position
DictSet(d, k, v) ==
  IF DictHas(d, k)
  THEN [i \in 1..Len(d) |-> IF d[i][1] = k THEN <<k, v>> ELSE d[i]]
  ELSE Append(d, <<k, v>>)

\* d.update(e)
RECURSIVE DictUpdate(_, _)
DictUpdate(d, e) ==
  IF e = <<>> THEN d
  ELSE DictUpdate(DictSet(d, e[1][1], e[1][2]), Tail(e))

\* {k: v for k, v in d.items() if Keep(k)}
DictFilter(d, Keep(_)) == LET KeepPair(p) == Keep(p[1]) IN Filter(d, KeepPair)

\* {k: F(k, v) for k, v in d.items()}
DictMap(d, F(_, _)) == [i \in 1..Len(d) |-> <<d[i][1], F(d[i][1], d[i][2])>>]

\* ------------------------------------------------------------ model names
LowerSeg(seg) == IF seg = "Prophet" THEN "prophet" ELSE seg

\* model_name.lower()
Lower(name) == [i \in 1..Len(name) |-> LowerSeg(name[i])]

\* model_name.split("_")[0].lower()
Family(name) == LowerSeg(name[1])

\* model_name + "_smodel"
WithSuffix(name) == Append(name, "smodel")

\* a test for a tag that no name carries
HasSuffixNever(name) == FALSE

\* "_smodel" in k
HasSuffix(name) == \E i \in 2..Len(name) : name[i] = "smodel"

MODELS ==
  {"arima", "holtwinters", "sarima", "prophet", "linear", "quadratic", "theta"}

SMODELS == {<<"prophet">>, <<"theta">>}

\* ------------------------------------------------------------ objects
\* an object is a function from the names of its assigned attributes
HasAttr(o, a) == a \in DOMAIN o

\* o.a = v
SetAttr(o, a, v) == [x \in (DOMAIN o) \cup {a} |-> IF x = a THEN v ELSE o[x]]

\* None is <<>>, any other value v is <<v>>
None == <<>>

Some(v) == <<v>>

\* ------------------------------------------------- inputs of a construction
Aggregations == {"median", "weightedavg", "mean"}

Decompositions == {"additive", "multiplicative", "stl"}

SeasonalityLengths == {None} \cup {Some(k) : k \in 0..MaxSeasonLen}

\* params has no "fitExecutor" key, or the key with None, or with a callable;
\* the configurations considered have no "forecastExecutor" key
ExecutorKeys == {"absent", "None", "callable"}

ModelNames == {<<"prophet">>, <<"holtwinters">>, <<"prophet", "smodel">>}

\* the model lists a caller configures: names pairwise distinct
ModelLists ==
  {l \in SeqsUpTo(ModelNames, MaxModels) :
     \A i, j \in 1..Len(l) : i # j => l[i] # l[j]}

\* a series with timestamps 1..n
Series(n) == [i \in 1..n |-> Num(2 + i)]

SeriesSet == {Series(n) : n \in 3..MaxLen}

ParamsSet ==
  [aggregation : Aggregations,
   decomposition_method : Decompositions,
   seasonality_length : SeasonalityLengths,
   fitExecutor : ExecutorKeys,
   models : ModelLists]

\* ------------------------------------------------------------ collaborators
\* ACFDetector, TimeSeriesDecomposition, the model classes and
\* BackTesterSimple are outside this file; they are modelled by their
\* contracts.  env.acf is the detector's verdict on the series, env.noCI the
\* model families whose predict() returns no fcst_lower/fcst_upper columns
\* (the seasonal-capable families always return theirs).
\* env.errors is the error a backtest of each family's model reports,
\* env.period the period of the seasonal component the decomposer finds,
\* env.cpu_count what multiprocessing.cpu_count() answers on the machine and
\* env.raises the families whose model raises in fit().
BacktestErrors ==
  [family \in MODELS |->
     IF family = "prophet" THEN Num(1)
     ELSE IF family = "holtwinters" THEN Num(3) ELSE Num(2)]

\* a machine on which the worker count is the number of model families
LargeMachine == 16

EnvSet ==
  [acf : BOOLEAN, noCI : SUBSET {"holtwinters"}, errors : {BacktestErrors},
   period : {2}, cpu_count : {LargeMachine}, raises : {{}}]

\* decomposer.decomposer()["seasonal"]: same timestamps as the series,
\* exactly periodic, and positive in multiplicative mode
SeasonalComponent(data, method, env) ==
  [i \in 1..Len(data) |->
     IF method = "additive" THEN Num((i - 1) % env.period)
     ELSE Num(1 + ((i - 1) % env.period))]

\* m = model_func(params, data); m.fit(), for a fit that succeeds
FitSingle(data, family) == [family |-> family, train |-> data]

FamilyBias(family) == IF family = "prophet" THEN 0 ELSE 1

\* m.predict(steps).set_index("time"): a table of steps rows
ModelPredict(m, steps, env) ==
  LET level == RAdd(m.train[Len(m.train)], Num(FamilyBias(m.family)))
  IN  IF m.family \in env.noCI
      THEN [columns |-> {"fcst"},
            fcst |-> [i \in 1..steps |-> level],
            fcst_lower |-> <<>>,
            fcst_upper |-> <<>>]
      ELSE [columns |-> {"fcst", "fcst_lower", "fcst_upper"},
            fcst |-> [i \in 1..steps |-> level],
            fcst_lower |-> [i \in 1..steps |-> RSub(level, Num(1))],
            fcst_upper |-> [i \in 1..steps |-> RAdd(level, Num(1))]]

\* bt.get_error_value("mape") of a backtest on the raw series
BacktestError(family, env) == env.errors[family]

\* sys.float_info.epsilon, scaled to the width of the model's integers
EpsDen == 64

Epsilon == Rat(1, EpsDen)

\* a handler's outcome: the object as the handler leaves it, "ok" or the
\* exception it raises, and what it started on the way
Outcome(o, result, effects) == [self |-> o, result |-> result, effects |-> effects]

\* -------------------------------------------------------- validate_params
\* a validation that also lets an unsupported mode through
ValidAggregationLax(aggregation) == aggregation \in {"median", "weightedavg", "mean"}

ValidAggregation(aggregation) == aggregation \in {"median", "weightedavg"}

\* a validation against the whole length instead of half of it
SeasonalityTooLongWhole(seasonality_length, data) ==
  /\ seasonality_length # None
  /\ seasonality_length[1] > Len(data)

SeasonalityTooLong(seasonality_length, data) ==
  /\ seasonality_length # None
  /\ seasonality_length[1] > Len(data) \div 2

\* a validation that keeps whatever method is configured
EffectiveDecompositionAsGiven(decomposition_method) == decomposition_method

\* "Invalid decomposition method setting specified", "Defaulting to Additive
\* Decomposition"
EffectiveDecomposition(decomposition_method) ==
  IF decomposition_method \in {"additive", "multiplicative"}
  THEN decomposition_method
  ELSE "additive"

validate_params(o) ==
  IF ~ValidAggregation(o.params.aggregation)
  THEN Outcome(o, "ValueError", {})
  ELSE
    LET o1 == SetAttr(o, "decomposition_method",
                EffectiveDecomposition(o.params.decomposition_method))
        o2 == IF o.params.fitExecutor = "callable"
              THEN SetAttr(o1, "fitExecutor", "callable")
              ELSE o1
    IN  IF SeasonalityTooLong(o.params.seasonality_length, o.data)
        THEN Outcome(o1, "ValueError", {})
        ELSE Outcome(o2, "ok", {})

\* a constructor that starts the object with empty results
initWithResults(data, params) ==
  validate_params([data |-> data, freq |-> 1, params |-> params,
                   fitted |-> EmptyDict, predicted |-> EmptyDict])

\* __init__
init(data, params) ==
  validate_params([data |-> data, freq |-> 1, params |-> params])

\* ------------------------------------------------------------ deseasonalize
deseasonalize(data, decomposition_method, env) ==
  LET seasonal == SeasonalComponent(data, decomposition_method, env)
  IN  [sea_data |-> seasonal,
       desea_data |->
         [i \in 1..Len(data) |->
            IF decomposition_method = "additive"
            THEN RSub(data[i], seasonal[i])
            ELSE RDiv(data[i], seasonal[i])]]

\* ------------------------------------------------------------ reseasonalize
\* np.tile(unit, rep)
RECURSIVE Tile(_, _)
Tile(unit, rep) == IF rep <= 0 THEN <<>> ELSE unit \o Tile(unit, rep - 1)

\* s[:k]
Take(s, k) == SubSeq(s, 1, IF k < Len(s) THEN k ELSE Len(s))

\* s[:k], the first values in place of the last
FirstN(s, k) == SubSeq(s, 1, IF k < Len(s) THEN k ELSE Len(s))

\* s[-k:] for k > 0
LastN(s, k) == SubSeq(s, IF k < Len(s) THEN Len(s) - k + 1 ELSE 1, Len(s))

\* math.trunc(1 + steps / seasonality_length), seasonality_length > 0
Repetitions(steps, seasonality_length) == 1 + (steps \div seasonality_length)

SeasonalTile(sea_data, seasonality_length, steps) ==
  Take(Tile(LastN(sea_data, seasonality_length),
            Repetitions(steps, seasonality_length)), steps)

\* a combination that adds whatever the mode
CombineAdding(decomposition_method, x, seasonal) == RAdd(x, seasonal)

Combine(decomposition_method, x, seasonal) ==
  IF decomposition_method = "additive" THEN RAdd(x, seasonal) ELSE RMul(x, seasonal)

HasNativeCI(table) == {"fcst_lower", "fcst_upper"} \subseteq table.columns

\* bounds that are not-a-number whatever the mode
DummyCINaN(decomposition_method) == NaN

\* the bounds given to a forecast that has none
DummyCI(decomposition_method) ==
  IF decomposition_method = "additive" THEN NaN ELSE Zero

ReseasonalizeOne(desea_pred, decomposition_method, tiled) ==
  LET Col(c) == [i \in 1..Len(c) |-> Combine(decomposition_method, c[i], tiled[i])]
  IN  IF HasNativeCI(desea_pred)
      THEN [columns |-> desea_pred.columns,
            fcst |-> Col(desea_pred.fcst),
            fcst_lower |-> Col(desea_pred.fcst_lower),
            fcst_upper |-> Col(desea_pred.fcst_upper)]
      ELSE [columns |-> {"fcst", "fcst_lower", "fcst_upper"},
            fcst |-> Col(desea_pred.fcst),
            fcst_lower |-> [i \in 1..Len(desea_pred.fcst) |-> DummyCI(decomposition_method)],
            fcst_upper |-> [i \in 1..Len(desea_pred.fcst) |-> DummyCI(decomposition_method)]]

\* steps / seasonality_length: TypeError on None, ZeroDivisionError on 0
reseasonalize(sea_data, desea_predict, decomposition_method, seasonality_length, steps) ==
  IF seasonality_length = None
  THEN [result |-> "TypeError", predicted |-> EmptyDict]
  ELSE IF seasonality_length[1] = 0
  THEN [result |-> "ZeroDivisionError", predicted |-> EmptyDict]
  ELSE
    LET tiled == SeasonalTile(sea_data, seasonality_length[1], steps)
        One(k, v) == ReseasonalizeOne(v, decomposition_method, tiled)
    IN  [result |-> "ok", predicted |-> DictMap(desea_predict, One)]

\* ------------------------------------------------------------ worker pools
\* min(len(MODELS), (cpu_count() - 1) // 2)
NumProcess(env) ==
  LET half == (env.cpu_count - 1) \div 2
  IN  IF Cardinality(MODELS) < half THEN Cardinality(MODELS) ELSE half

\* Pool(processes=num_process) raises ValueError below one process
PoolCreated(env) == NumProcess(env) >= 1

\* results that are read without the exception of a task
TaskRaisesUnseen(models, env) == FALSE

\* res.get() raises what the task raised
TaskRaises(models, env) == \E i \in 1..Len(models) : Family(models[i]) \in env.raises

\* --------------------------------------------------------- _backtester_all
RECURSIVE RSum(_)
RSum(s) == IF s = <<>> THEN Zero ELSE RAdd(Head(s), RSum(Tail(s)))

\* a weight that grows with the error
OriginalWeightDirect(err) == RAdd(err, Epsilon)

\* 1 / (err + sys.float_info.epsilon)
OriginalWeight(err) == RDiv(Num(1), RAdd(err, Epsilon))

\* a weight left as it is
NormalisedWeightRaw(w, total) == w

\* err / sum(original_weights.values()), err being an original weight
NormalisedWeight(w, total) == RDiv(w, total)

ErrorsToWeights(errors) ==
  LET Reciprocal(k, err) == OriginalWeight(err)
      original_weights == DictMap(errors, Reciprocal)
      total == RSum(DictValues(original_weights))
      Normalise(k, w) == NormalisedWeight(w, total)
  IN  DictMap(original_weights, Normalise)

Registered(models) == \A i \in 1..Len(models) : Family(models[i]) \in MODELS

RECURSIVE BacktestLoop(_, _, _)
BacktestLoop(models, backtesters, env) ==
  IF models = <<>> THEN backtesters
  ELSE BacktestLoop(Tail(models),
         DictSet(backtesters, Head(models), BacktestError(Family(Head(models)), env)),
         env)

backtester_all(o, env) ==
  IF ~PoolCreated(env)
  THEN [self |-> o, result |-> "ValueError", weights |-> EmptyDict, errors |-> EmptyDict]
  ELSE IF ~Registered(o.model_params)
  THEN [self |-> o, result |-> "KeyError", weights |-> EmptyDict, errors |-> EmptyDict]
  ELSE
    LET errors == BacktestLoop(o.model_params, EmptyDict, env)
    IN  [self |-> SetAttr(o, "errors", errors), result |-> "ok",
         weights |-> ErrorsToWeights(errors), errors |-> errors]

\* -------------------------------------------------------------- fitExecutor
RECURSIVE FitLoop(_, _, _)
FitLoop(models, data, fitted_models) ==
  IF models = <<>> THEN fitted_models
  ELSE FitLoop(Tail(models), data,
         DictSet(fitted_models, Head(models), FitSingle(data, Family(Head(models)))))

TaskEffects(models, kind) == IF models = <<>> THEN {} ELSE {kind}

fitExecutor(o, data, models, should_auto_backtest, env) ==
  IF ~PoolCreated(env)
  THEN [self |-> o, result |-> "ValueError", fitted |-> EmptyDict, weights |-> None,
        effects |-> {}]
  ELSE IF ~Registered(models)
  THEN [self |-> o, result |-> "KeyError", fitted |-> EmptyDict, weights |-> None,
        effects |-> IF Family(models[1]) \in MODELS THEN {"fit_task"} ELSE {}]
  ELSE IF TaskRaises(models, env)
  THEN [self |-> o, result |-> "TaskError", fitted |-> EmptyDict, weights |-> None,
        effects |-> {"fit_task"}]
  ELSE
    LET fitted == FitLoop(models, data, EmptyDict)
        bt == backtester_all(o, env)
    IN  IF should_auto_backtest
        THEN [self |-> bt.self, result |-> bt.result, fitted |-> fitted,
              weights |-> Some(bt.weights),
              effects |-> TaskEffects(models, "fit_task")
                          \cup TaskEffects(o.model_params, "backtest_task")]
        ELSE [self |-> o, result |-> "ok", fitted |-> fitted, weights |-> None,
              effects |-> TaskEffects(models, "fit_task")]

\* ---------------------------------------------------------------------- fit
\* the copies of the seasonal-capable models, renamed with the suffix
RECURSIVE ExtraModels(_)
ExtraModels(models) ==
  IF models = <<>> THEN <<>>
  ELSE (IF Lower(Head(models)) \in SMODELS THEN <<WithSuffix(Head(models))>> ELSE <<>>)
       \o ExtraModels(Tail(models))

\* the copies appended to the caller's own list
GivenModelsInPlace(o) ==
  [self |-> [o EXCEPT !.params.models = @ \o ExtraModels(@)],
   given_models |-> o.params.models \o ExtraModels(o.params.models)]

\* given_models = copy(self.params["models"].models), and the copies of the
\* seasonal-capable models appended to it: the configured list is left alone
GivenModels(o) ==
  [self |-> o,
   given_models |-> o.params.models \o ExtraModels(o.params.models)]

\* the local name fitExecutor is bound only when params has no such key
FitExecutorBound(params) == params.fitExecutor = "absent"

\* the series the seasonal branch of fit() hands to the executor
FitData(o) == o.desea_data

\* "The given time series contains seasonality, a `seasonality_length` must
\* be given in params"
MissingSeasonalityLengthUnchecked(seasonality, seasonality_length) == FALSE

MissingSeasonalityLength(seasonality, seasonality_length) ==
  seasonality /\ seasonality_length = None

fit(o, env) ==
  LET o1 == SetAttr(o, "seasonality", env.acf)
      auto_backtesting == o.params.aggregation # "median"
  IN
  IF MissingSeasonalityLength(o1.seasonality, o.params.seasonality_length)
  THEN Outcome(o1, "ValueError", {"detect"})
  ELSE IF o1.seasonality
  THEN
    LET d == deseasonalize(o.data, o.decomposition_method, env)
        o2 == SetAttr(SetAttr(o1, "sea_data", d.sea_data), "desea_data", d.desea_data)
        g == GivenModels(o2)
        o3 == SetAttr(g.self, "model_params", g.given_models)
        r == fitExecutor(o3, FitData(o3), g.given_models, auto_backtesting, env)
    IN  IF ~FitExecutorBound(o.params)
        THEN Outcome(o3, "UnboundLocalError", {"detect", "decompose"})
        ELSE IF r.result # "ok"
        THEN Outcome(r.self, r.result, {"detect", "decompose"} \cup r.effects)
        ELSE Outcome(SetAttr(SetAttr(r.self, "fitted", r.fitted), "weights", r.weights),
                     "ok", {"detect", "decompose"} \cup r.effects)
  ELSE
    LET o3 == SetAttr(o1, "model_params", o.params.models)
        r == fitExecutor(o3, o.data, o.params.models, auto_backtesting, env)
    IN  IF ~FitExecutorBound(o.params)
        THEN Outcome(o3, "UnboundLocalError", {"detect"})
        ELSE IF r.result # "ok"
        THEN Outcome(r.self, r.result, {"detect"} \cup r.effects)
        ELSE Outcome(SetAttr(SetAttr(r.self, "fitted", r.fitted), "weights", r.weights),
                     "ok", {"detect"} \cup r.effects)

\* ------------------------------------------------------------------ predict
\* "add dummy C.I if the model doesn't have native C.I"
AddDummyCI(table) ==
  IF HasNativeCI(table) THEN table
  ELSE [columns |-> table.columns \cup {"fcst_lower", "fcst_upper"},
        fcst |-> table.fcst,
        fcst_lower |-> [i \in 1..Len(table.fcst) |-> NaN],
        fcst_upper |-> [i \in 1..Len(table.fcst) |-> NaN]]

predict(o, steps, env) ==
  LET o1 == SetAttr(o, "steps", steps)
      Pred(k, v) == ModelPredict(v, steps, env)
      Unsuffixed(k) == ~HasSuffix(k)
  IN
  IF ~HasAttr(o1, "seasonality") THEN Outcome(o1, "AttributeError", {})
  ELSE IF ~HasAttr(o1, "fitted") THEN Outcome(o1, "AttributeError", {})
  ELSE IF o1.seasonality
  THEN
    LET desea_predict == DictMap(DictFilter(o1.fitted, Unsuffixed), Pred)
        r == reseasonalize(o1.sea_data, desea_predict, o1.decomposition_method,
                           o1.params.seasonality_length, steps)
        extra_predict == DictMap(DictFilter(o1.fitted, HasSuffix), Pred)
    IN  IF r.result # "ok"
        THEN Outcome(o1, r.result, {"predict"})
        ELSE Outcome(SetAttr(o1, "predicted", DictUpdate(r.predicted, extra_predict)),
                     "ok", {"predict"})
  ELSE
    LET Dummy(k, v) == AddDummyCI(v)
    IN  Outcome(SetAttr(o1, "predicted", DictMap(DictMap(o1.fitted, Pred), Dummy)),
                "ok", {"predict"})

\* --------------------------------------------------------- forecastExecutor
forecastExecutor(o, data, models, steps, should_auto_backtest, env) ==
  IF ~PoolCreated(env)
  THEN [self |-> o, result |-> "ValueError", predicted |-> EmptyDict, errors |-> None,
        effects |-> {}]
  ELSE IF ~Registered(models)
  THEN [self |-> o, result |-> "KeyError", predicted |-> EmptyDict, errors |-> None,
        effects |-> IF Family(models[1]) \in MODELS THEN {"fit_task"} ELSE {}]
  ELSE IF TaskRaises(models, env)
  THEN [self |-> o, result |-> "TaskError", predicted |-> EmptyDict, errors |-> None,
        effects |-> {"fit_task"}]
  ELSE
    LET fitted == FitLoop(models, data, EmptyDict)
        Pred(k, v) == ModelPredict(v, steps, env)
        predicted == DictMap(fitted, Pred)
        o1 == SetAttr(o, "model_params", models)
        bt == backtester_all(o1, env)
    IN  IF should_auto_backtest
        THEN [self |-> bt.self, result |-> bt.result, predicted |-> predicted,
              errors |-> Some(bt.errors),
              effects |-> TaskEffects(models, "fit_task")
                          \cup TaskEffects(models, "backtest_task")]
        ELSE [self |-> o1, result |-> "ok", predicted |-> predicted, errors |-> None,
              effects |-> TaskEffects(models, "fit_task")]

\* ----------------------------------------------------------------- forecast
forecast(o, steps, env) ==
  LET o1 == SetAttr(SetAttr(o, "steps", steps), "seasonality", env.acf)
      auto_backtesting == o.params.aggregation # "median"
      weighted == o.params.aggregation = "weightedavg"
      \* lines 486-498
      Finish(ob, effects) ==
        LET ow == SetAttr(ob, "weights",
                    IF weighted THEN Some(ErrorsToWeights(ob.err[1])) ELSE None)
        IN  Outcome(ow, "ok", effects)
  IN
  IF MissingSeasonalityLength(o1.seasonality, o.params.seasonality_length)
  THEN Outcome(o1, "ValueError", {"detect"})
  ELSE IF o1.seasonality
  THEN
    LET d == deseasonalize(o.data, o.decomposition_method, env)
        o2 == SetAttr(SetAttr(o1, "sea_data", d.sea_data), "desea_data", d.desea_data)
        r1 == forecastExecutor(o2, o2.desea_data, o.params.models, steps,
                               auto_backtesting, env)
        rs == reseasonalize(o2.sea_data, r1.predicted, o2.decomposition_method,
                            o.params.seasonality_length, steps)
        extra_models == ExtraModels(o.params.models)
        r2 == forecastExecutor(r1.self, o.data, extra_models, steps,
                               auto_backtesting, env)
        o3 == SetAttr(r2.self, "predicted", DictUpdate(rs.predicted, r2.predicted))
        o4 == IF weighted
              THEN SetAttr(o3, "err", Some(DictUpdate(r1.errors[1], r2.errors[1])))
              ELSE o3
        e1 == {"detect", "decompose"} \cup r1.effects
    IN  IF r1.result # "ok" THEN Outcome(r1.self, r1.result, e1)
        ELSE IF rs.result # "ok" THEN Outcome(r1.self, rs.result, e1)
        ELSE IF r2.result # "ok" THEN Outcome(r2.self, r2.result, e1 \cup r2.effects)
        ELSE Finish(o4, e1 \cup r2.effects)
  ELSE
    LET r == forecastExecutor(o1, o.data, o.params.models, steps,
                              auto_backtesting, env)
        Dummy(k, v) == AddDummyCI(v)
        \* predicted, self.err = self.forecastExecutor(...)
        o2 == SetAttr(r.self, "err", r.errors)
        o3 == SetAttr(o2, "predicted", DictMap(r.predicted, Dummy))
    IN  IF r.result # "ok" THEN Outcome(r.self, r.result, {"detect"} \cup r.effects)
        ELSE Finish(o3, {"detect"} \cup r.effects)

\* ---------------------------------------------------------------- aggregate
\* pd.concat of one column of every per-model forecast, one row per step
Stack(predicted, col) ==
  LET tables == DictValues(predicted)
  IN  [i \in 1..Len(tables[1].fcst) |-> [m \in 1..Len(tables) |-> tables[m][col][i]]]

\* a clean-up that leaves the zero bounds in place
clean_dummy_CI_keep(fcsts, use_zero) == fcsts

\* df.replace(0, np.nan) / df.fillna(0)
clean_dummy_CI(fcsts, use_zero) ==
  LET Clean(x) == IF use_zero THEN (IF IsNaN(x) THEN Zero ELSE x)
                  ELSE (IF x = Zero THEN NaN ELSE x)
      CleanFrame(frame) == [i \in 1..Len(frame) |-> SeqMap(Clean, frame[i])]
  IN  [fcst |-> fcsts.fcst,
       fcst_lower |-> CleanFrame(fcsts.fcst_lower),
       fcst_upper |-> CleanFrame(fcsts.fcst_upper)]

RECURSIVE Insert(_, _)
Insert(x, sorted) ==
  IF sorted = <<>> THEN <<x>>
  ELSE IF RLess(x, Head(sorted)) THEN <<x>> \o sorted
  ELSE <<Head(sorted)>> \o Insert(x, Tail(sorted))

RECURSIVE Sort(_)
Sort(s) == IF s = <<>> THEN <<>> ELSE Insert(Head(s), Sort(Tail(s)))

NotNaN(x) == ~IsNaN(x)

\* median(axis=1) of one row: not-a-number cells are skipped
Median(row) ==
  LET v == Sort(Filter(row, NotNaN))
      n == Len(v)
  IN  IF n = 0 THEN NaN
      ELSE IF n % 2 = 1 THEN v[(n + 1) \div 2]
      ELSE RDiv(RAdd(v[n \div 2], v[(n \div 2) + 1]), Num(2))

\* frame.dot(weights)
Dot(frame, w) ==
  [i \in 1..Len(frame) |-> RSum([m \in 1..Len(w) |-> RMul(frame[i][m], w[m])])]

\* an aggregate() that never looks for missing bounds
AnyNaNUnchecked(frame) == FALSE

AnyNaN(frame) == \E i \in 1..Len(frame) : \E m \in 1..Len(frame[i]) : IsNaN(frame[i][m])

\* future dates that go on from the dates of the call before
FutureDatesResumed(o) ==
  LET last_date == IF HasAttr(o, "dates") THEN o.dates[Len(o.dates)] ELSE Len(o.data)
  IN  [i \in 1..o.steps |-> last_date + i * o.freq]

\* pd.date_range(start=last_date, periods=steps + 1, freq=freq) less last_date
FutureDates(o) ==
  LET last_date == Len(o.data)
  IN  [i \in 1..o.steps |-> last_date + i * o.freq]

aggregate(o) ==
  IF ~HasAttr(o, "steps") THEN Outcome(o, "AttributeError", {})
  ELSE
    LET dates == FutureDates(o)
        o1 == SetAttr(o, "dates", dates)
    IN
    IF ~HasAttr(o1, "predicted") THEN Outcome(o1, "AttributeError", {})
    ELSE IF o1.predicted = EmptyDict THEN Outcome(o1, "ValueError", {})
    ELSE IF \E m \in 1..Len(o1.predicted) :
              ~({"fcst", "fcst_lower", "fcst_upper"} \subseteq o1.predicted[m][2].columns)
    THEN Outcome(o1, "KeyError", {})
    ELSE
      LET fcsts == [fcst |-> Stack(o1.predicted, "fcst"),
                    fcst_lower |-> Stack(o1.predicted, "fcst_lower"),
                    fcst_upper |-> Stack(o1.predicted, "fcst_upper")]
          rows == Len(fcsts.fcst)
      IN
      IF o1.params.aggregation = "median"
      THEN
        LET cleaned == clean_dummy_CI(fcsts, FALSE)
            fcst_df == [time |-> dates,
                        fcst |-> SeqMap(Median, cleaned.fcst),
                        fcst_lower |-> SeqMap(Median, cleaned.fcst_lower),
                        fcst_upper |-> SeqMap(Median, cleaned.fcst_upper)]
        IN  IF rows # Len(dates) THEN Outcome(o1, "ValueError", {})
            ELSE Outcome(SetAttr(o1, "fcst_df", fcst_df), "ok", {})
      ELSE
        IF AnyNaN(fcsts.fcst_lower) \/ AnyNaN(fcsts.fcst_upper)
        THEN Outcome(o1, "ValueError", {})
        ELSE IF ~HasAttr(o1, "weights") THEN Outcome(o1, "AttributeError", {})
        ELSE IF o1.weights = None THEN Outcome(o1, "AttributeError", {})
        ELSE
          LET w == DictValues(o1.weights[1])
              fcst_df == [time |-> dates,
                          fcst |-> Dot(fcsts.fcst, w),
                          fcst_lower |-> Dot(fcsts.fcst_lower, w),
                          fcst_upper |-> Dot(fcsts.fcst_upper, w)]
          IN  IF Len(w) # Len(o1.predicted) THEN Outcome(o1, "ValueError", {})
              ELSE IF rows # Len(dates) THEN Outcome(o1, "ValueError", {})
              ELSE Outcome(SetAttr(o1, "fcst_df", fcst_df), "ok", {})

\* ------------------------------------------------------------ state machine
VARIABLES
  env,       \* what the collaborators answer for this series
  data,      \* the caller's series
  params,    \* the caller's configuration
  pc,        \* "new" before the constructor ran, then "ready" or "failed"
  self,      \* the attributes of the KatsEnsemble object
  last,      \* the last call: its name, its result, what it started
  frame,     \* the call that is running, when its steps are told apart
  pools      \* the worker pools of the calls whose steps are told apart

vars == <<env, data, params, pc, self, last, frame, pools>>

\* no call is running; calls have been made
Idle(calls) == [pc |-> "idle", calls |-> calls]

\* the state before the constructor runs on one of the given inputs
InitOf(envs, series, configs) ==
  /\ env \in envs
  /\ data \in series
  /\ params \in configs
  /\ pc = "new"
  /\ self = [data |-> data, freq |-> 1, params |-> params]
  /\ last = [op |-> "none", result |-> "ok", effects |-> {}]
  /\ frame = Idle(0)
  /\ pools = <<>>

\* the pipeline: every collaborator behaviour and model list, on a series
\* long enough for the longest seasonality period
Init ==
  InitOf(EnvSet, {Series(2 * MaxSeasonLen)},
         [aggregation : Aggregations,
          decomposition_method : {"additive", "multiplicative"},
          seasonality_length : {None, Some(MaxSeasonLen)},
          fitExecutor : {"absent"},
          models : ModelLists])

\* the configuration: every params record with no model or one
InitConfig ==
  InitOf([acf : BOOLEAN, noCI : {{}}, errors : {BacktestErrors}, period : {2},
          cpu_count : {LargeMachine}, raises : {{}}],
         SeriesSet,
         {p \in ParamsSet : p.models \in {<<>>, <<<<"prophet">>>>}})

\* a call told as one step
Return(op, r) ==
  /\ frame.pc = "idle"
  /\ self' = r.self
  /\ last' = [op |-> op, result |-> r.result, effects |-> r.effects]
  /\ UNCHANGED <<frame, pools>>

\* KatsEnsemble(data, params)
Construct ==
  /\ pc = "new"
  /\ LET r == init(data, params)
     IN  /\ Return("init", r)
         /\ pc' = IF r.result = "ok" THEN "ready" ELSE "failed"
  /\ UNCHANGED <<env, data, params>>

Fit ==
  /\ pc = "ready"
  /\ Return("fit", fit(self, env))
  /\ UNCHANGED <<env, data, params, pc>>

Predict ==
  /\ pc = "ready"
  /\ \E steps \in 1..MaxSteps : Return("predict", predict(self, steps, env))
  /\ UNCHANGED <<env, data, params, pc>>

Forecast ==
  /\ pc = "ready"
  /\ \E steps \in 1..MaxSteps : Return("forecast", forecast(self, steps, env))
  /\ UNCHANGED <<env, data, params, pc>>

Aggregate ==
  /\ pc = "ready"
  /\ Return("aggregate", aggregate(self))
  /\ UNCHANGED <<env, data, params, pc>>

Next == Construct \/ Fit \/ Predict \/ Forecast \/ Aggregate

Spec == Init /\ [][Next]_vars

\* the aggregator on its own: an ensemble that has just predicted one step,
\* its models having returned any of a few forecast rows
AggNames == <<<<"holtwinters">>, <<"linear">>, <<"quadratic">>, <<"sarima">>, <<"arima">>>>

AggBounds == {<<NaN, NaN>>, <<Zero, Zero>>, <<Num(1), Num(3)>>, <<Num(2), Num(5)>>}

AggTables ==
  {[columns |-> {"fcst", "fcst_lower", "fcst_upper"},
    fcst |-> <<f>>, fcst_lower |-> <<b[1]>>, fcst_upper |-> <<b[2]>>] :
     f \in {Num(1), Num(2)}, b \in AggBounds}

InitAggregate ==
  /\ env = [acf |-> FALSE, noCI |-> {}, errors |-> BacktestErrors, period |-> 2,
            cpu_count |-> LargeMachine, raises |-> {}]
  /\ data = Series(3)
  /\ pc = "ready"
  /\ last = [op |-> "predict", result |-> "ok", effects |-> {"predict"}]
  /\ frame = Idle(0)
  /\ pools = <<>>
  /\ \E k \in 1..MaxAggModels, aggregation \in {"median", "weightedavg"} :
       \E tables \in [1..k -> AggTables] :
         LET models == SubSeq(AggNames, 1, k)
             o == init(data, [aggregation |-> aggregation,
                              decomposition_method |-> "additive",
                              seasonality_length |-> None,
                              fitExecutor |-> "absent",
                              models |-> models]).self
             fitted == fit(o, env).self
             Given(name, t) == tables[CHOOSE i \in 1..k : models[i] = name]
         IN  /\ params = o.params
             /\ self = SetAttr(SetAttr(fitted, "steps", 1), "predicted",
                               DictMap(fitted.fitted, Given))

NextAggregate == Aggregate

SpecAggregate == InitAggregate /\ [][NextAggregate]_vars

SpecConfig == InitConfig /\ [][Next]_vars

\* the weight derivation on its own: a constructed ensemble of the first few
\* of these models, the backtest of each family reporting any of a few errors
WeightNames ==
  <<<<"prophet">>, <<"holtwinters">>, <<"linear">>, <<"quadratic">>, <<"sarima">>>>

ErrorValues == {Zero, Num(1), Num(3)}

WeightErrors(models) ==
  {[family \in MODELS |->
      IF family \in DOMAIN drawn THEN drawn[family] ELSE BacktestErrors[family]] :
     drawn \in [{Family(models[i]) : i \in 1..Len(models)} -> ErrorValues]}

InitWeights ==
  /\ data = Series(4)
  /\ pc = "ready"
  /\ \E k \in 1..MaxAggModels :
       /\ params \in [aggregation : {"median", "weightedavg"},
                      decomposition_method : {"additive"},
                      seasonality_length : {Some(2)},
                      fitExecutor : {"absent"},
                      models : {SubSeq(WeightNames, 1, k)}]
       /\ env \in [acf : BOOLEAN, noCI : {{}}, errors : WeightErrors(params.models),
                   period : {2}, cpu_count : {LargeMachine}, raises : {{}}]
  /\ self = init(data, params).self
  /\ last = [op |-> "init", result |-> "ok", effects |-> {}]
  /\ frame = Idle(0)
  /\ pools = <<>>

NextWeights == Fit \/ Forecast

SpecWeights == InitWeights /\ [][NextWeights]_vars

\* the decomposition round trip on its own: a series of any length of at
\* least two periods, its residual handed back as a forecast of as many steps
RoundTripValues == {Num(1), Num(3)}

InitRoundTrip ==
  /\ pc = "series"
  /\ \E period \in 1..MaxSeasonLen :
       /\ env = [acf |-> TRUE, noCI |-> {}, errors |-> BacktestErrors,
                 period |-> period, cpu_count |-> LargeMachine, raises |-> {}]
       /\ \E n \in (2 * period)..(2 * MaxSeasonLen + 1) :
            data \in [1..n -> RoundTripValues]
       /\ params \in [aggregation : {"median"},
                      decomposition_method : {"additive", "multiplicative"},
                      seasonality_length : {Some(period)},
                      fitExecutor : {"absent"},
                      models : {<<>>}]
  /\ self = [data |-> data, freq |-> 1, params |-> params]
  /\ last = [op |-> "none", result |-> "ok", effects |-> {}]
  /\ frame = Idle(0)
  /\ pools = <<>>

\* KatsEnsemble.deseasonalize(data, decomposition_method)
Deseasonalize ==
  /\ pc = "series"
  /\ LET d == deseasonalize(data, params.decomposition_method, env)
     IN  self' = SetAttr(SetAttr(self, "sea_data", d.sea_data),
                         "desea_data", d.desea_data)
  /\ last' = [op |-> "deseasonalize", result |-> "ok", effects |-> {"decompose"}]
  /\ pc' = "decomposed"
  /\ UNCHANGED <<env, data, params, frame, pools>>

\* KatsEnsemble.reseasonalize(sea_data, {model: residual}, decomposition_method,
\* seasonality_length, steps=len(series)), the residual with or without bounds
Reseasonalize ==
  /\ pc = "decomposed"
  /\ \E native \in BOOLEAN :
       LET residual == self.desea_data
           table == IF native
                    THEN [columns |-> {"fcst", "fcst_lower", "fcst_upper"},
                          fcst |-> residual, fcst_lower |-> residual,
                          fcst_upper |-> residual]
                    ELSE [columns |-> {"fcst"}, fcst |-> residual,
                          fcst_lower |-> <<>>, fcst_upper |-> <<>>]
           r == reseasonalize(self.sea_data, <<<<<<"linear">>, table>>>>,
                              params.decomposition_method,
                              params.seasonality_length, Len(data))
       IN  /\ self' = SetAttr(self, "predicted", r.predicted)
           /\ last' = [op |-> "reseasonalize", result |-> r.result, effects |-> {}]
  /\ pc' = "recomposed"
  /\ UNCHANGED <<env, data, params, frame, pools>>

NextRoundTrip == Deseasonalize \/ Reseasonalize

SpecRoundTrip == InitRoundTrip /\ [][NextRoundTrip]_vars

\* ------------------------------------------------- a call, step by step
\* fit() and forecast() told step by step: the orchestrator creates a pool
\* for each fan-out batch, dispatches one task per model, closes and joins
\* the pool and collects the results, while the workers run the tasks.
MaxCpuCount == 3

Batch(kind, models) == [kind |-> kind, models |-> models]

\* one executor call: the fit tasks, then the backtest tasks of the same models
ExecutorBatches(models, should_auto_backtest) ==
  <<Batch("fit", models)>>
  \o (IF should_auto_backtest THEN <<Batch("backtest", models)>> ELSE <<>>)

\* the executor call of fit()
FitBatches ==
  ExecutorBatches(IF env.acf THEN params.models \o ExtraModels(params.models)
                  ELSE params.models,
                  params.aggregation # "median")

\* the executor calls of forecast()
ForecastBatches ==
  IF env.acf
  THEN ExecutorBatches(params.models, params.aggregation # "median")
       \o ExecutorBatches(ExtraModels(params.models), params.aggregation # "median")
  ELSE ExecutorBatches(params.models, params.aggregation # "median")

Finished(task) == task.status \in {"ok", "raised"}

\* the call ends, by a return or by an exception that nothing catches: the
\* object is left with what the call assigned up to there
Leave(result) ==
  /\ self' = frame.whole.self
  /\ last' = [op |-> frame.op, result |-> result, effects |-> frame.whole.effects]
  /\ frame' = Idle(frame.calls)

\* the call starts and runs up to its first executor call; whole is the call
\* told as one step, for the attributes it assigns
Enter(op, batches, whole) ==
  /\ pc = "ready"
  /\ frame.pc = "idle"
  /\ frame.calls = 0
  /\ IF MissingSeasonalityLength(env.acf, params.seasonality_length)
        \/ (op = "fit" /\ ~FitExecutorBound(params))
     THEN /\ self' = whole.self
          /\ last' = [op |-> op, result |-> whole.result, effects |-> whole.effects]
          /\ frame' = Idle(frame.calls + 1)
     ELSE /\ frame' = [pc |-> "pool", calls |-> frame.calls + 1, op |-> op,
                       batches |-> batches, done |-> 0, i |-> 1,
                       handles |-> EmptyDict, whole |-> whole]
          /\ UNCHANGED <<self, last>>
  /\ UNCHANGED <<env, data, params, pc, pools>>

FitEnter == \E whole \in {fit(self, env)} : Enter("fit", FitBatches, whole)

ForecastEnter ==
  \E whole \in {forecast(self, 1, env)} : Enter("forecast", ForecastBatches, whole)

\* pool = multiprocessing.Manager().Pool(processes=num_process, ...)
PoolCreate ==
  /\ frame.pc = "pool"
  /\ IF PoolCreated(env)
     THEN /\ pools' = Append(pools, [kind |-> Head(frame.batches).kind,
                                     processes |-> NumProcess(env),
                                     state |-> "open", tasks |-> <<>>])
          /\ frame' = [frame EXCEPT !.pc = "dispatch", !.i = 1, !.handles = EmptyDict]
          /\ UNCHANGED <<self, last>>
     ELSE /\ Leave("ValueError")
          /\ UNCHANGED pools
  /\ UNCHANGED <<env, data, params, pc>>

\* fitted_models[model.model_name] = pool.apply_async(..., MODELS[family], ...)
Dispatch ==
  /\ frame.pc = "dispatch"
  /\ frame.i <= Len(Head(frame.batches).models)
  /\ LET model == Head(frame.batches).models[frame.i]
         pool == pools[Len(pools)]
     IN  IF Family(model) \in MODELS
         THEN /\ pools' = [pools EXCEPT ![Len(pools)].tasks =
                             Append(@, [key |-> model, status |-> "queued", rank |-> 0])]
              /\ frame' = [frame EXCEPT !.i = @ + 1,
                             !.handles = DictSet(@, model, Len(pool.tasks) + 1)]
              /\ UNCHANGED <<self, last>>
         ELSE /\ Leave("KeyError")
              /\ UNCHANGED pools
  /\ UNCHANGED <<env, data, params, pc>>

\* pool.close()
PoolClose ==
  /\ frame.pc = "dispatch"
  /\ frame.i > Len(Head(frame.batches).models)
  /\ pools' = [pools EXCEPT ![Len(pools)].state = "closed"]
  /\ frame' = [frame EXCEPT !.pc = "join"]
  /\ UNCHANGED <<env, data, params, pc, self, last>>
\* a join that does not wait for the tasks
JoinReturnsAtOnce(pool) == TRUE

\* pool.join() returns when the workers have left, every task being finished
JoinReturns(pool) == \A t \in 1..Len(pool.tasks) : Finished(pool.tasks[t])

PoolJoin ==
  /\ frame.pc = "join"
  /\ JoinReturns(pools[Len(pools)])
  /\ pools' = [pools EXCEPT ![Len(pools)].state = "joined"]
  /\ frame' = [frame EXCEPT !.pc = "collect"]
  /\ UNCHANGED <<env, data, params, pc, self, last>>

\* fitted = {model: res.get() for model, res in fitted_models.items()}, and
\* on to the next executor call or to the end of the call
Collect ==
  /\ frame.pc = "collect"
  /\ LET pool == pools[Len(pools)]
         handles == DictValues(frame.handles)
     IN  IF \E h \in 1..Len(handles) : pool.tasks[handles[h]].status # "ok"
         THEN Leave("TaskError")
         ELSE IF Len(frame.batches) > 1
         THEN /\ frame' = [frame EXCEPT !.pc = "pool", !.batches = Tail(@),
                             !.done = @ + 1]
              /\ UNCHANGED <<self, last>>
         ELSE Leave("ok")
  /\ UNCHANGED <<env, data, params, pc, pools>>

Running(pool) == {t \in 1..Len(pool.tasks) : pool.tasks[t].status = "running"}

Queued(pool) == {t \in 1..Len(pool.tasks) : pool.tasks[t].status = "queued"}

\* a free worker of a pool takes the first task of the pool's queue
TaskStart ==
  /\ \E p \in 1..Len(pools) :
       /\ Queued(pools[p]) # {}
       /\ Cardinality(Running(pools[p])) < pools[p].processes
       /\ LET t == CHOOSE q \in Queued(pools[p]) : \A r \in Queued(pools[p]) : q <= r
          IN  pools' = [pools EXCEPT ![p].tasks[t].status = "running"]
  /\ UNCHANGED <<env, data, params, pc, self, last, frame>>

\* _fit_single or _backtester_single returns or raises in its worker; rank
\* is the task's place in the order the tasks of its pool finish in
TaskFinish ==
  /\ \E p \in 1..Len(pools) : \E t \in Running(pools[p]) :
       pools' = [pools EXCEPT
                   ![p].tasks[t].status =
                     IF /\ pools[p].kind = "fit"
                        /\ Family(pools[p].tasks[t].key) \in env.raises
                     THEN "raised" ELSE "ok",
                   ![p].tasks[t].rank =
                     1 + Cardinality({u \in 1..Len(pools[p].tasks) :
                                        Finished(pools[p].tasks[u])})]
  /\ UNCHANGED <<env, data, params, pc, self, last, frame>>

FanOutNames ==
  <<<<"prophet">>, <<"holtwinters">>, <<"linear">>, <<"quadratic">>, <<"sarima">>>>

\* the first few of the names, and the same before a name of no registered
\* family
FanOutLists ==
  UNION {{SubSeq(FanOutNames, 1, k), Append(SubSeq(FanOutNames, 1, k - 1), <<"lstm">>)} :
           k \in 1..MaxModels}

\* one call on a new ensemble, or on one that a fit() and a forecast() have
\* left their results in, on a machine of any size, the fit of holtwinters
\* raising or not
InitFanOut ==
  /\ env \in [acf : BOOLEAN, noCI : {{}}, errors : {BacktestErrors}, period : {2},
              cpu_count : (1..MaxCpuCount) \cup {LargeMachine},
              raises : SUBSET {"holtwinters"}]
  /\ data = Series(4)
  /\ params \in [aggregation : {"median", "weightedavg"},
                 decomposition_method : {"additive"},
                 seasonality_length : {Some(2)},
                 fitExecutor : {"absent"},
                 models : FanOutLists]
  /\ pc = "ready"
  /\ \E sound \in {[env EXCEPT !.raises = {}, !.cpu_count = LargeMachine]},
          new \in {init(data, params).self} :
       \/ /\ self = new
          /\ last = [op |-> "init", result |-> "ok", effects |-> {}]
       \/ /\ Registered(params.models)
          /\ \E fitted \in {fit(new, sound).self} :
               \E r \in {forecast(fitted, 1, sound)} :
                 /\ self = r.self
                 /\ last = [op |-> "forecast", result |-> "ok", effects |-> r.effects]
  /\ frame = Idle(0)
  /\ pools = <<>>

NextFanOut ==
  \/ FitEnter
  \/ ForecastEnter
  \/ PoolCreate
  \/ Dispatch
  \/ PoolClose
  \/ PoolJoin
  \/ Collect
  \/ TaskStart
  \/ TaskFinish

SpecFanOut == InitFanOut /\ [][NextFanOut]_vars

\* ------------------------------------------------------------- Evaluator
\* kats.evaluation.evaluator.Evaluator keeps its evaluation runs in the dict
\* runs, by name.  A name a caller passes is a string or something else, here
\* an integer; it is told by its type and its text.
StrName(text) == [type |-> "str", text |-> text]

IntName(text) == [type |-> "int", text |-> text]

RunNames ==
  {StrName("valid_run"), StrName("duplicate_run"), StrName("delete_run"), IntName("2")}

\* EvaluationObject(None, None, None, None, None)
EmptyEvaluation ==
  [input_data |-> None, model |-> None, preds |-> None, errors |-> None,
   results |-> None]

\* isinstance(run_name, str)
IsStr(run_name) == run_name.type = "str"

\* a registry that never finds a name taken
NameTakenNever(runs, run_name) == FALSE

\* run_name in self.runs
NameTaken(runs, run_name) == DictHas(runs, run_name)

Returned(ev, result, returned) == [self |-> ev, result |-> result, returned |-> returned]

create_evaluation_run(ev, run_name) ==
  IF ~IsStr(run_name) THEN Returned(ev, "ValueError", None)
  ELSE IF NameTaken(ev.runs, run_name) THEN Returned(ev, "ValueError", None)
  ELSE Returned([ev EXCEPT !.runs = DictSet(@, run_name, EmptyEvaluation)], "ok", None)

delete_evaluation_run(ev, run_name) ==
  LET Others(k) == k # run_name
  IN  IF ~DictHas(ev.runs, run_name) THEN Returned(ev, "ValueError", None)
      ELSE Returned([ev EXCEPT !.runs = DictFilter(@, Others)], "ok", None)

get_evaluation_run(ev, run_name) ==
  IF ~DictHas(ev.runs, run_name) THEN Returned(ev, "ValueError", None)
  ELSE Returned(ev, "ok", Some(DictGet(ev.runs, run_name)))

\* Evaluator(): no run is registered
InitEvaluator ==
  /\ env = <<>>
  /\ data = <<>>
  /\ params = <<>>
  /\ pc = "evaluator"
  /\ self = [runs |-> EmptyDict]
  /\ last = [op |-> "none", result |-> "ok", effects |-> {},
             run_name |-> StrName(""), returned |-> None]
  /\ frame = Idle(0)
  /\ pools = <<>>

EvaluatorCall(op, run_name, r) ==
  /\ pc = "evaluator"
  /\ self' = r.self
  /\ last' = [op |-> op, result |-> r.result, effects |-> {},
              run_name |-> run_name, returned |-> r.returned]
  /\ UNCHANGED <<env, data, params, pc, frame, pools>>

CreateEvaluationRun ==
  \E run_name \in RunNames :
    EvaluatorCall("create", run_name, create_evaluation_run(self, run_name))

DeleteEvaluationRun ==
  \E run_name \in RunNames :
    EvaluatorCall("delete", run_name, delete_evaluation_run(self, run_name))

GetEvaluationRun ==
  \E run_name \in RunNames :
    EvaluatorCall("get", run_name, get_evaluation_run(self, run_name))

NextEvaluator == CreateEvaluationRun \/ DeleteEvaluationRun \/ GetEvaluationRun

SpecEvaluator == InitEvaluator /\ [][NextEvaluator]_vars

\* ------------------------------------------- reseasonalize on its own
\* reseasonalize on its own: a seasonal component of any length and values, a
\* period no longer than it, and per-model forecasts of any number of steps,
\* with both bound columns, one of them or none
SeasonalValues == {Zero, Num(1), Num(3)}

BoundColumns == {{}, {"fcst_lower"}, {"fcst_upper"}, {"fcst_lower", "fcst_upper"}}

\* a model's forecast of the residual: steps rows, the given bound columns
ResidualForecast(steps, bounds) ==
  [columns |-> {"fcst"} \cup bounds,
   fcst |-> [i \in 1..steps |-> Num(i + 1)],
   fcst_lower |-> IF "fcst_lower" \in bounds THEN [i \in 1..steps |-> Num(i)] ELSE <<>>,
   fcst_upper |-> IF "fcst_upper" \in bounds THEN [i \in 1..steps |-> Num(i + 2)] ELSE <<>>]

InitReseasonalize ==
  /\ pc = "components"
  /\ env = [acf |-> TRUE, noCI |-> {}, errors |-> BacktestErrors, period |-> 1,
            cpu_count |-> LargeMachine, raises |-> {}]
  /\ \E period \in 1..(MaxSeasonLen + 1) :
       /\ \E n \in period..MaxLen : data \in [1..n -> SeasonalValues]
       /\ params \in [aggregation : {"median"},
                      decomposition_method : {"additive", "multiplicative"},
                      seasonality_length : {Some(period)},
                      fitExecutor : {"absent"},
                      models : {<<>>}]
  /\ self = [sea_data |-> data, params |-> params,
             decomposition_method |-> params.decomposition_method]
  /\ last = [op |-> "none", result |-> "ok", effects |-> {}]
  /\ frame = Idle(0)
  /\ pools = <<>>

\* KatsEnsemble.reseasonalize(sea_data, desea_predict, decomposition_method,
\* seasonality_length, steps) on the forecasts of two models
ReseasonalizeForecasts ==
  /\ pc = "components"
  /\ \E steps \in 1..(MaxSteps + 1), bounds \in BoundColumns :
       LET desea_predict ==
             <<<<<<"linear">>, ResidualForecast(steps, bounds)>>,
               <<<<"holtwinters">>, ResidualForecast(steps, {"fcst_lower", "fcst_upper"})>>>>
           r == reseasonalize(self.sea_data, desea_predict, self.decomposition_method,
                              params.seasonality_length, steps)
       IN  /\ self' = SetAttr(SetAttr(SetAttr(self, "steps", steps),
                                      "desea_predict", desea_predict),
                              "predicted", r.predicted)
           /\ last' = [op |-> "reseasonalize", result |-> r.result, effects |-> {}]
  /\ pc' = "reseasonalized"
  /\ UNCHANGED <<env, data, params, frame, pools>>

NextReseasonalize == ReseasonalizeForecasts

SpecReseasonalize == InitReseasonalize /\ [][NextReseasonalize]_vars

\* ------------------------------------------------------------ SARIMAModel
\* SARIMAModel (models/sarima.py): predict() of a fitted model.  The
\* statsmodels results object is outside this file: get_forecast(steps)
\* answers steps values with an interval around each, get_prediction(0) one
\* value with its interval for every point of the series.
MaxOrder == 1

SarimaOrders == [p : 0..MaxOrder, d : 0..MaxOrder, q : 0..MaxOrder]

\* seasonal_order = (P, D, Q, s)
SeasonalOrders == {<<P, D, Q, s>> : P \in 0..1, D \in 0..1, Q \in 0..1, s \in 0..MaxSeasonLen}

Max2(a, b) == IF a < b THEN b ELSE a

Max3(a, b, c) == Max2(a, Max2(b, c))

\* k = max(p, d, q) + max(P, D, Q) * seasonal_order[3] + 1
InvalidRows(sarima_params) ==
  Max3(sarima_params.p, sarima_params.d, sarima_params.q)
  + Max3(sarima_params.seasonal_order[1], sarima_params.seasonal_order[2],
         sarima_params.seasonal_order[3]) * sarima_params.seasonal_order[4]
  + 1

\* fcst.predicted_mean and fcst.conf_int() of get_forecast(steps), the lower
\* end of an interval below its upper end
SarimaForecast(series, steps) ==
  [mean |-> [i \in 1..steps |-> series[Len(series)]],
   lower |-> [i \in 1..steps |-> RSub(series[Len(series)], Num(1))],
   upper |-> [i \in 1..steps |-> RAdd(series[Len(series)], Num(1))]]

\* history_fcst.predicted_mean and history_fcst.conf_int() of get_prediction(0)
SarimaHistory(series) ==
  [mean |-> series,
   lower |-> [i \in 1..Len(series) |-> RSub(series[i], Num(1))],
   upper |-> [i \in 1..Len(series) |-> RAdd(series[i], Num(1))]]

\* fcst_df.loc[0:k, column] = np.nan: a label slice, both ends included; the
\* row of label k is row k + 1 of the table
BlankLoc(column, k) == [i \in 1..Len(column) |-> IF i - 1 <= k THEN NaN ELSE column[i]]

\* SARIMAModel.predict(steps, include_history)
sarima_predict(o, steps, include_history) ==
  LET n == Len(o.data)
      fcst == SarimaForecast(o.data, steps)
      o1 == SetAttr(SetAttr(o, "include_history", include_history), "freq", 1)
      o2 == SetAttr(SetAttr(SetAttr(o1, "y_fcst", fcst.mean),
                            "y_fcst_lower", fcst.lower), "y_fcst_upper", fcst.upper)
      o3 == SetAttr(o2, "dates", [i \in 1..steps |-> n + i])
      history == SarimaHistory(o.data)
      k == InvalidRows(o.params)
      with_history ==
        [time |-> [i \in 1..n |-> i] \o o3.dates,
         fcst |-> BlankLoc(history.mean \o o3.y_fcst, k),
         fcst_lower |-> BlankLoc(history.lower \o o3.y_fcst_lower, k),
         fcst_upper |-> BlankLoc(history.upper \o o3.y_fcst_upper, k)]
      future == [time |-> o3.dates, fcst |-> o3.y_fcst,
                 fcst_lower |-> o3.y_fcst_lower, fcst_upper |-> o3.y_fcst_upper]
  IN  Outcome(SetAttr(o3, "fcst_df", IF include_history THEN with_history ELSE future),
              "ok", {})

\* a SARIMAModel that fit() has fitted, on a series of a few points
InitSarima ==
  /\ env = <<>>
  /\ data \in SeriesSet
  /\ \E orders \in SarimaOrders, seasonal_order \in SeasonalOrders :
       params = [p |-> orders.p, d |-> orders.d, q |-> orders.q,
                 seasonal_order |-> seasonal_order]
  /\ pc = "sarima"
  /\ self = [data |-> data, params |-> params]
  /\ last = [op |-> "fit", result |-> "ok", effects |-> {}]
  /\ frame = Idle(0)
  /\ pools = <<>>

SarimaPredict ==
  /\ pc = "sarima"
  /\ \E steps \in 1..MaxSteps, include_history \in BOOLEAN :
       LET r == sarima_predict(self, steps, include_history)
       IN  /\ self' = r.self
           /\ last' = [op |-> "predict", result |-> r.result, effects |-> {}]
  /\ UNCHANGED <<env, data, params, pc, frame, pools>>

NextSarima == SarimaPredict

SpecSarima == InitSarima /\ [][NextSarima]_vars

\* ------------------------------------------------------------- properties
\* attribute a is the same (unset, or set to the same value) in o1 and o2
SameAttr(o1, o2, a) ==
  /\ HasAttr(o1, a) <=> HasAttr(o2, a)
  /\ HasAttr(o1, a) => o1[a] = o2[a]

Started == {"detect", "decompose", "fit_task", "backtest_task", "predict"}

\* C1: a construction with an aggregation other than "median" or
\* "weightedavg" raises ValueError; the object never becomes usable and no
\* detection, decomposition, fit or backtest is started for it.
C1_InvalidAggregationRaises ==
  params.aggregation \notin {"median", "weightedavg"} =>
    /\ pc # "ready"
    /\ last.op \in {"none", "init"}
    /\ last.effects \cap Started = {}
    /\ pc = "failed" => last.result = "ValueError"

C1_Witness ==
  /\ pc = "failed"
  /\ last.op = "init"
  /\ last.result = "ValueError"
  /\ params.aggregation = "mean"

\* C2: a construction with a seasonality_length above floor(len(series)/2)
\* raises ValueError, so in every state after a successful construction the
\* seasonality_length is unset or at most floor(len(series)/2).
C2_SeasonalityLengthBounded ==
  /\ (/\ params.seasonality_length # None
      /\ params.seasonality_length[1] > Len(data) \div 2) =>
       /\ pc # "ready"
       /\ pc = "failed" => last.result = "ValueError"
  /\ pc = "ready" =>
       \/ self.params.seasonality_length = None
       \/ 2 * self.params.seasonality_length[1] <= Len(self.data)

C2_Witness ==
  /\ pc = "failed"
  /\ last.result = "ValueError"
  /\ params.aggregation = "median"
  /\ params.seasonality_length = Some(2)
  /\ Len(data) = 3

\* C3: on a seasonal series with no seasonality_length, fit() and forecast()
\* raise ValueError having started no decomposition, fit task or backtest
\* task, and leave fitted, predicted and weights as they were.
C3_MissingLengthRaisesEarly ==
  [][(/\ pc = "ready"
      /\ env.acf
      /\ params.seasonality_length = None
      /\ last'.op \in {"fit", "forecast"}) =>
       /\ last'.result = "ValueError"
       /\ last'.effects \cap {"decompose", "fit_task", "backtest_task"} = {}
       /\ SameAttr(self, self', "fitted")
       /\ SameAttr(self, self', "predicted")
       /\ SameAttr(self, self', "weights")]_vars

C3_Witness ==
  /\ env.acf
  /\ params.seasonality_length = None
  /\ last.op = "fit"
  /\ last.result = "ValueError"
  /\ last.effects = {"detect"}

\* C4: after fit() on a seasonal series every "_smodel" model was fitted on
\* the raw series and every other model on the deseasonalized series.
C4_SuffixedFittedOnRaw ==
  (/\ last.op = "fit"
   /\ last.result = "ok"
   /\ self.seasonality) =>
    \A i \in 1..Len(self.fitted) :
      self.fitted[i][2].train =
        IF HasSuffix(self.fitted[i][1]) THEN self.data ELSE self.desea_data

Distinct(s) == \A i, j \in 1..Len(s) : i # j => s[i] # s[j]

SeasonalCapable(models) == {i \in 1..Len(models) : Lower(models[i]) \in SMODELS}

\* C5: with pairwise distinct configured names, the batch fit() hands to the
\* executor has pairwise distinct keys and fit() stores n + s artifacts on a
\* seasonal series (s the seasonal-capable names), n on a non-seasonal one.
C5_FitBatchKeysDistinct ==
  (/\ last.op = "fit"
   /\ last.result = "ok"
   /\ Distinct(params.models)) =>
    IF self.seasonality
    THEN /\ Distinct(self.model_params)
         /\ Len(self.fitted) =
              Len(params.models) + Cardinality(SeasonalCapable(params.models))
    ELSE Len(self.fitted) = Len(params.models)

\* C6: a "fitExecutor" key in params, whether None or a callable, never
\* makes fit() fail: fit() completes and stores fitted models and weights.
C6_ExecutorKeyHarmless ==
  (/\ last.op = "fit"
   /\ params.fitExecutor \in {"None", "callable"}
   /\ ~(env.acf /\ params.seasonality_length = None)) =>
    /\ last.result = "ok"
    /\ HasAttr(self, "fitted")
    /\ HasAttr(self, "weights")

\* C7: after a successful predict() or forecast() every per-model forecast has
\* the three columns, and a model without native intervals has not-a-number
\* in both bound columns.
C7_BoundsPresentNaNWhenMissing ==
  (/\ last.op \in {"predict", "forecast"}
   /\ last.result = "ok") =>
    \A i \in 1..Len(self.predicted) :
      LET t == self.predicted[i][2]
      IN  /\ {"fcst", "fcst_lower", "fcst_upper"} \subseteq t.columns
          /\ Family(self.predicted[i][1]) \in env.noCI =>
               \A r \in 1..Len(t.fcst) : IsNaN(t.fcst_lower[r]) /\ IsNaN(t.fcst_upper[r])

\* C8: in "weightedavg" mode, when a model of the ensemble has no native
\* intervals, aggregate() raises a validation error.
C8_WeightedRejectsMissingCI ==
  (/\ last.op = "aggregate"
   /\ params.aggregation = "weightedavg"
   /\ HasAttr(self, "predicted")
   /\ \E i \in 1..Len(self.predicted) : Family(self.predicted[i][1]) \in env.noCI) =>
    last.result = "ValueError"

\* some cell of the stacked fcst_lower or fcst_upper table is not-a-number
StackedBoundIsNaN(predicted) ==
  \E i \in 1..Len(predicted) :
    LET t == predicted[i][2]
    IN  \E r \in 1..Len(t.fcst) : IsNaN(t.fcst_lower[r]) \/ IsNaN(t.fcst_upper[r])

AllColumns(predicted) ==
  /\ predicted # EmptyDict
  /\ \A i \in 1..Len(predicted) :
       {"fcst", "fcst_lower", "fcst_upper"} \subseteq predicted[i][2].columns

\* C9: in "weightedavg" mode, aggregate() on forecasts with a not-a-number
\* bound raises ValueError and leaves fcst_df as it was; on a non-seasonal
\* series predict() gives a model without native intervals not-a-number bounds.
C9_WeightedNaNRaises ==
  [][/\ (/\ last'.op = "aggregate"
         /\ params.aggregation = "weightedavg"
         /\ HasAttr(self, "predicted")
         /\ AllColumns(self.predicted)
         /\ StackedBoundIsNaN(self.predicted)) =>
          /\ last'.result = "ValueError"
          /\ SameAttr(self, self', "fcst_df")
     /\ (/\ last'.op = "predict"
         /\ last'.result = "ok"
         /\ ~self'.seasonality) =>
          \A i \in 1..Len(self'.predicted) :
            Family(self'.predicted[i][1]) \in env.noCI =>
              /\ AllColumns(self'.predicted)
              /\ \A r \in 1..Len(self'.predicted[i][2].fcst) :
                   /\ IsNaN(self'.predicted[i][2].fcst_lower[r])
                   /\ IsNaN(self'.predicted[i][2].fcst_upper[r])]_vars

C9_Witness ==
  /\ last.op = "aggregate"
  /\ last.result = "ValueError"
  /\ params.aggregation = "weightedavg"
  /\ HasAttr(self, "fitted")
  /\ ~self.seasonality
  /\ Len(self.predicted) = 1
  /\ Family(self.predicted[1][1]) \in env.noCI
  /\ StackedBoundIsNaN(self.predicted)
  /\ ~HasAttr(self, "fcst_df")

\* the cells of a row that the median of a bound column is taken over
KeptBounds(row) == {k \in 1..Len(row) : ~IsNaN(row[k]) /\ row[k] # Zero}

Finite(row) == {k \in 1..Len(row) : ~IsNaN(row[k])}

\* x stands at position p when the cells idx of row are put in order
AtRank(x, row, idx, p) ==
  /\ Cardinality({k \in idx : RLess(row[k], x)}) < p
  /\ p <= Cardinality({k \in idx : ~RLess(x, row[k])})

\* m is the median of the cells idx of row: the middle one, or the mean of
\* the two middle ones; not-a-number when there is none
IsMedianOver(m, row, idx) ==
  LET n == Cardinality(idx)
  IN  IF n = 0 THEN IsNaN(m)
      ELSE /\ ~IsNaN(m)
           /\ \E i, j \in idx :
                /\ AtRank(row[i], row, idx, (n + 1) \div 2)
                /\ AtRank(row[j], row, idx, (n \div 2) + 1)
                /\ RMul(Num(2), m) = RAdd(row[i], row[j])

ColumnRow(predicted, col, r) == [m \in 1..Len(predicted) |-> predicted[m][2][col][r]]

\* C10: in "median" mode each aggregated bound is the median of the
\* per-model bounds of that row that are neither not-a-number nor zero, and
\* the aggregated fcst is the median of all per-model fcst values.
C10_MedianSkipsMissingBounds ==
  (/\ last.op = "aggregate"
   /\ last.result = "ok"
   /\ params.aggregation = "median") =>
    \A r \in 1..Len(self.fcst_df.time) :
      LET lower == ColumnRow(self.predicted, "fcst_lower", r)
          upper == ColumnRow(self.predicted, "fcst_upper", r)
          fcst == ColumnRow(self.predicted, "fcst", r)
      IN  /\ IsMedianOver(self.fcst_df.fcst_lower[r], lower, KeptBounds(lower))
          /\ IsMedianOver(self.fcst_df.fcst_upper[r], upper, KeptBounds(upper))
          /\ IsMedianOver(self.fcst_df.fcst[r], fcst, Finite(fcst))

\* three models, the first with all bounds missing: the medians are the
\* means of the other two models' bounds
C10_Witness ==
  /\ last.op = "aggregate"
  /\ last.result = "ok"
  /\ params.aggregation = "median"
  /\ Len(self.predicted) = 3
  /\ self.predicted[1][2].fcst_lower = <<NaN>>
  /\ self.predicted[1][2].fcst_upper = <<NaN>>
  /\ self.predicted[2][2].fcst_lower = <<Num(1)>>
  /\ self.predicted[3][2].fcst_lower = <<Num(2)>>
  /\ self.fcst_df.fcst_lower = <<Rat(3, 2)>>
  /\ self.fcst_df.fcst_upper = <<Num(4)>>

\* the cell of row r that the models' weights, taken by model key, give
KeyedCell(predicted, weights, col, r) ==
  RSum([i \in 1..Len(predicted) |->
          RMul(predicted[i][2][col][r], DictGet(weights, predicted[i][1]))])

SameKeys(d, e) == Range(DictKeys(d)) = Range(DictKeys(e))

\* C11: in "weightedavg" mode every cell aggregate() returns is the sum over
\* the models of the model's own weight times the model's value: the weights
\* are in the order of the stacked forecast columns.
C11_WeightsAlignedWithColumns ==
  (/\ last.op = "aggregate"
   /\ last.result = "ok"
   /\ params.aggregation = "weightedavg") =>
    /\ SameKeys(self.weights[1], self.predicted)
    /\ DictKeys(self.weights[1]) = DictKeys(self.predicted)
    /\ \A r \in 1..Len(self.fcst_df.time) :
         /\ self.fcst_df.fcst[r] =
              KeyedCell(self.predicted, self.weights[1], "fcst", r)
         /\ self.fcst_df.fcst_lower[r] =
              KeyedCell(self.predicted, self.weights[1], "fcst_lower", r)
         /\ self.fcst_df.fcst_upper[r] =
              KeyedCell(self.predicted, self.weights[1], "fcst_upper", r)

\* the weight of entry i of an error mapping: its reciprocal over the sum of
\* all the reciprocals
ReciprocalShare(errors, i) ==
  LET r == [k \in 1..Len(errors) |-> RDiv(Num(1), RAdd(errors[k][2], Epsilon))]
  IN  RDiv(r[i], RSum(r))

WeightsOf(weights, errors) ==
  /\ DictKeys(weights) = DictKeys(errors)
  /\ \A i \in 1..Len(errors) :
       /\ weights[i][2] = ReciprocalShare(errors, i)
       /\ ~IsNaN(weights[i][2])
       /\ ~RLess(weights[i][2], Zero)
  /\ RSum(DictValues(weights)) = Num(1)

\* C12: in "weightedavg" mode the weights fit() and forecast() store are, for
\* the keys of the error mapping, the reciprocal of error + epsilon over the
\* sum of the reciprocals: non-negative and of sum 1.  In "median" mode
\* forecast() stores no weights.
C12_WeightsAreReciprocalShares ==
  /\ (/\ last.op = "fit"
      /\ last.result = "ok"
      /\ params.aggregation = "weightedavg") =>
       /\ self.weights # None
       /\ WeightsOf(self.weights[1], self.errors)
  /\ (/\ last.op = "forecast"
      /\ last.result = "ok"
      /\ params.aggregation = "weightedavg") =>
       /\ self.weights # None
       /\ WeightsOf(self.weights[1], self.err[1])
  /\ (/\ last.op = "forecast"
      /\ last.result = "ok"
      /\ params.aggregation = "median") =>
       self.weights = None

\* errors 0 and 3: the weights are 193/194 and 1/194
C12_Witness ==
  /\ last.op = "forecast"
  /\ last.result = "ok"
  /\ params.aggregation = "weightedavg"
  /\ ~env.acf
  /\ self.err = Some(<<<<<<"prophet">>, Zero>>, <<<<"holtwinters">>, Num(3)>>>>)
  /\ self.weights[1][1][2] = Rat(193, 194)
  /\ self.weights[1][2][2] = Rat(1, 194)

LowerErrorHigherWeight(weights, errors) ==
  \A a, b \in 1..Len(errors) :
    RLess(errors[a][2], errors[b][2]) =>
      RLess(DictGet(weights, errors[b][1]), DictGet(weights, errors[a][1]))

\* C13: of any two models of an ensemble, the one with the strictly lower
\* backtest error has the strictly higher weight, after fit() and after
\* forecast().
C13_LowerErrorHigherWeight ==
  /\ (/\ last.op = "fit"
      /\ last.result = "ok"
      /\ params.aggregation = "weightedavg") =>
       LowerErrorHigherWeight(self.weights[1], self.errors)
  /\ (/\ last.op = "forecast"
      /\ last.result = "ok"
      /\ params.aggregation = "weightedavg") =>
       LowerErrorHigherWeight(self.weights[1], self.err[1])

\* three families with errors 3 > 1 > 0 on a seasonal series
C13_Witness ==
  /\ last.op = "fit"
  /\ last.result = "ok"
  /\ params.aggregation = "weightedavg"
  /\ env.acf
  /\ Len(self.errors) = 4
  /\ DictGet(self.errors, <<"prophet">>) = Num(3)
  /\ DictGet(self.errors, <<"holtwinters">>) = Num(1)
  /\ DictGet(self.errors, <<"linear">>) = Zero
  /\ RLess(DictGet(self.weights[1], <<"prophet", "smodel">>),
           DictGet(self.weights[1], <<"holtwinters">>))
  /\ RLess(DictGet(self.weights[1], <<"holtwinters">>),
           DictGet(self.weights[1], <<"linear">>))

\* C14: aggregate() leaves predicted, weights, fitted and steps as they were,
\* and a second aggregate() right after it ends the same way with the same
\* consensus table, in both aggregation modes.
C14_AggregateIdempotentReadOnly ==
  [][last'.op = "aggregate" =>
       /\ SameAttr(self, self', "predicted")
       /\ SameAttr(self, self', "weights")
       /\ SameAttr(self, self', "fitted")
       /\ SameAttr(self, self', "steps")
       /\ aggregate(self').result = last'.result
       /\ SameAttr(self', aggregate(self').self, "fcst_df")
       /\ aggregate(self').self = self']_vars

\* a median over a zero bound, which the clean-up turns into not-a-number
C14_Witness ==
  /\ last.op = "aggregate"
  /\ last.result = "ok"
  /\ params.aggregation = "median"
  /\ Len(self.predicted) = 2
  /\ self.predicted[1][2].fcst_lower = <<Zero>>
  /\ self.predicted[2][2].fcst_lower = <<Num(2)>>
  /\ self.fcst_df.fcst_lower = <<Num(2)>>
  /\ aggregate(self).self.fcst_df = self.fcst_df

\* the forecast reseasonalize returned is the series that was decomposed
RoundTripRestores ==
  /\ last.result = "ok"
  /\ self.predicted[1][2].fcst = data

\* C15 as stated: for every series length n and period p <= floor(n/2),
\* reseasonalize of the seasonal component and the residual of deseasonalize,
\* with steps = n, returns the original series at every position.
C15_RoundTripAnyLength ==
  pc = "recomposed" => RoundTripRestores

\* C15, amended: the round trip returns the original series at every position
\* when the series length is a multiple of the period.
C15_RoundTripWholePeriods ==
  (/\ pc = "recomposed"
   /\ Len(data) % params.seasonality_length[1] = 0) => RoundTripRestores

C15_Witness ==
  /\ pc = "recomposed"
  /\ params.decomposition_method = "multiplicative"
  /\ params.seasonality_length = Some(2)
  /\ data = <<Num(1), Num(3), Num(3), Num(1)>>
  /\ self.desea_data = <<Num(1), Rat(3, 2), Num(3), Rat(1, 2)>>
  /\ self.predicted[1][2].fcst = data
  /\ self.predicted[1][2].fcst_lower = <<Zero, Zero, Zero, Zero>>

\* C16: on a machine of any size the worker count of a fan-out is the
\* smaller of the number of model families and (cpu_count - 1) div 2 and is at
\* least 1, so the pool is created: no call fails for want of a worker.
C16_WorkerCountAtLeastOne ==
  /\ \A p \in 1..Len(pools) :
       /\ pools[p].processes >= 1
       /\ pools[p].processes <= Cardinality(MODELS)
       /\ pools[p].processes <= (env.cpu_count - 1) \div 2
       /\ pools[p].processes \in {Cardinality(MODELS), (env.cpu_count - 1) \div 2}
  /\ frame.pc = "pool" => NumProcess(env) >= 1
  /\ (frame.pc = "idle" /\ frame.calls = 1) => last.result # "ValueError"

AllFinished(pool) == \A t \in 1..Len(pool.tasks) : Finished(pool.tasks[t])

\* C17: the orchestrator is at the collection of a batch, or anywhere after
\* it, only when every task of the batch has finished, in whatever order; the
\* handles it collects from are one per dispatched model key.
C17_FanOutIsBarrier ==
  frame.pc # "idle" =>
    /\ \A p \in 1..(Len(pools) - 1) : AllFinished(pools[p])
    /\ frame.pc \in {"pool", "collect"} => \A p \in 1..Len(pools) : AllFinished(pools[p])
    /\ frame.pc \in {"join", "collect"} =>
         LET pool == pools[Len(pools)]
             models == Head(frame.batches).models
         IN  /\ Range(DictKeys(frame.handles)) = Range(models)
             /\ Len(frame.handles) = Cardinality(Range(models))
             /\ \A h \in 1..Len(frame.handles) :
                  pool.tasks[frame.handles[h][2]].key = frame.handles[h][1]

\* the second task of a batch of two finished first
C17_Witness ==
  /\ frame.pc = "collect"
  /\ Head(frame.batches).kind = "fit"
  /\ Len(pools[Len(pools)].tasks) >= 2
  /\ pools[Len(pools)].tasks[1].rank = 2
  /\ pools[Len(pools)].tasks[2].rank = 1
  /\ DictKeys(frame.handles) = Head(frame.batches).models

SomeRaised == \E p \in 1..Len(pools) : \E t \in 1..Len(pools[p].tasks) :
                pools[p].tasks[t].status = "raised"

\* C18: when a fit task of a batch has raised, the collection raises it and
\* fit() or forecast() ends with it: fitted, weights and predicted are what
\* they were before the call, and no task is dispatched again.
C18_TaskFailureFailsBatch ==
  [][/\ (frame.pc = "collect" /\ SomeRaised /\ frame' # frame) =>
          /\ frame'.pc = "idle"
          /\ last'.result = "TaskError"
     /\ (frame.pc # "idle" /\ frame'.pc = "idle" /\ last'.result = "TaskError") =>
          /\ SomeRaised
          /\ SameAttr(self, self', "fitted")
          /\ SameAttr(self, self', "weights")
          /\ SameAttr(self, self', "predicted")
     /\ SomeRaised =>
          /\ Len(pools') = Len(pools)
          /\ \A p \in 1..Len(pools) :
               \A t \in 1..Len(pools[p].tasks) :
                 pools[p].tasks[t].status = "raised" =>
                   /\ pools'[p].tasks[t].status = "raised"
                   /\ \A u \in 1..Len(pools'[p].tasks) :
                        pools'[p].tasks[u].key = pools[p].tasks[t].key => u = t]_vars

\* a fit() whose holtwinters task raised, on an ensemble that had results
C18_Witness ==
  /\ frame = Idle(1)
  /\ last.op = "fit"
  /\ last.result = "TaskError"
  /\ SomeRaised
  /\ HasAttr(self, "fitted")
  /\ Len(self.fitted) >= 2
  /\ HasAttr(self, "predicted")
  /\ params.aggregation = "weightedavg"
  /\ self.weights # None

\* C19: when a call has ended, by a return or by an exception, every pool it
\* created is closed and joined, and it created one pool for each batch it
\* started.
C19_PoolsJoinedAtExit ==
  /\ (frame.pc = "idle" /\ frame.calls = 1) =>
       \A p \in 1..Len(pools) : pools[p].state = "joined"
  /\ frame.pc \notin {"idle", "pool"} => Len(pools) = frame.done + 1

\* C20: a decomposition_method other than "additive" and "multiplicative"
\* never makes the construction fail; the object's decomposition method is
\* then "additive", and in every state of a constructed object it is one of
\* the two valid methods, the configured one when that one is valid.
C20_InvalidDecompositionFallsBack ==
  /\ (/\ pc = "failed"
      /\ params.decomposition_method \notin {"additive", "multiplicative"}) =>
       \/ params.aggregation \notin {"median", "weightedavg"}
       \/ /\ params.seasonality_length # None
          /\ params.seasonality_length[1] > Len(data) \div 2
  /\ pc = "ready" =>
       /\ self.decomposition_method \in {"additive", "multiplicative"}
       /\ params.decomposition_method \in {"additive", "multiplicative"} =>
            self.decomposition_method = params.decomposition_method
       /\ params.decomposition_method \notin {"additive", "multiplicative"} =>
            self.decomposition_method = "additive"

C20_Witness ==
  /\ pc = "ready"
  /\ params.decomposition_method = "stl"
  /\ self.decomposition_method = "additive"
  /\ last.op = "forecast"
  /\ last.result = "ok"
  /\ self.seasonality

AllFcstFinite(predicted) ==
  \A m \in 1..Len(predicted) :
    \A r \in 1..Len(predicted[m][2].fcst) : ~IsNaN(predicted[m][2].fcst[r])

RegisteredRun(ev, run_name) == \E i \in 1..Len(ev.runs) : ev.runs[i][1] = run_name

RunObject(ev, run_name) ==
  ev.runs[CHOOSE i \in 1..Len(ev.runs) : ev.runs[i][1] = run_name][2]

\* the runs other than run_name are the same, with the same objects
OtherRunsKept(ev, ev2, run_name) ==
  \A n \in RunNames \ {run_name} :
    /\ RegisteredRun(ev2, n) <=> RegisteredRun(ev, n)
    /\ RegisteredRun(ev, n) => RunObject(ev2, n) = RunObject(ev, n)

\* C22: a create_evaluation_run fails with ValueError exactly when the name
\* is not a string or is registered, a delete_evaluation_run or
\* get_evaluation_run exactly when the name is not registered; a successful
\* create registers an evaluation object with every field None, which a get
\* returns, and a successful delete leaves the name unregistered.
C22_EvaluatorRunRegistry ==
  [][LET n == last'.run_name
     IN  /\ last'.result \in {"ok", "ValueError"}
         /\ last'.result = "ValueError" => self' = self
         /\ last'.op = "create" =>
              /\ last'.result = "ValueError" <=>
                   (n.type # "str" \/ RegisteredRun(self, n))
              /\ last'.result = "ok" =>
                   /\ RegisteredRun(self', n)
                   /\ RunObject(self', n) = EmptyEvaluation
                   /\ \A f \in DOMAIN RunObject(self', n) : RunObject(self', n)[f] = None
                   /\ OtherRunsKept(self, self', n)
                   /\ get_evaluation_run(self', n).result = "ok"
                   /\ get_evaluation_run(self', n).returned = Some(EmptyEvaluation)
         /\ last'.op = "delete" =>
              /\ last'.result = "ValueError" <=> ~RegisteredRun(self, n)
              /\ last'.result = "ok" =>
                   /\ ~RegisteredRun(self', n)
                   /\ OtherRunsKept(self, self', n)
         /\ last'.op = "get" =>
              /\ last'.result = "ValueError" <=> ~RegisteredRun(self, n)
              /\ last'.result = "ok" =>
                   /\ self' = self
                   /\ last'.returned = Some(RunObject(self, n))]_vars

\* a name created, deleted and created again beside another run, then read
C22_Witness ==
  /\ pc = "evaluator"
  /\ last.op = "get"
  /\ last.result = "ok"
  /\ last.run_name = StrName("delete_run")
  /\ last.returned = Some(EmptyEvaluation)
  /\ DictKeys(self.runs) = <<StrName("valid_run"), StrName("delete_run")>>

\* C23: whatever calls were made on a constructed ensemble, the series it
\* holds is the caller's series as given, and the configured model list is the
\* caller's list, of the same length and names; the copies with the suffix
\* are in model_params only, once each however many calls were made.
C23_InputsUnchanged ==
  pc = "ready" =>
    /\ self.data = data
    /\ Len(self.data) = Len(data)
    /\ self.params = params
    /\ Len(self.params.models) = Len(params.models)
    /\ \A i \in 1..Len(params.models) : self.params.models[i] = params.models[i]
    /\ \A i \in 1..Len(params.models) : ~HasSuffix(params.models[i]) =>
         ~HasSuffix(self.params.models[i])
    /\ (HasAttr(self, "model_params") /\ last.op = "fit") =>
         Len(self.model_params) =
           Len(params.models)
           + (IF self.seasonality THEN Cardinality(SeasonalCapable(params.models)) ELSE 0)

\* a second seasonal fit(), after a forecast(): one copy, in model_params
C23_Witness ==
  /\ pc = "ready"
  /\ last.op = "fit"
  /\ last.result = "ok"
  /\ self.seasonality
  /\ HasAttr(self, "predicted")
  /\ HasAttr(self, "fcst_df")
  /\ params.models = <<<<"prophet">>>>
  /\ self.params.models = <<<<"prophet">>>>
  /\ self.model_params = <<<<"prophet">>, <<"prophet", "smodel">>>>
  /\ self.desea_data # data
  /\ self.data = data

\* the name carries the suffix tag
SuffixTagged(name) == Len(name) >= 2 /\ name[Len(name)] = "smodel"

\* what the fitted model of key k forecasts for the stored steps
RawForecast(o, k) == ModelPredict(DictGet(o.fitted, k), o.steps, env)

\* one table passed through reseasonalize, with the object's own settings
ReseasonalizedOnce(o, k, table) ==
  reseasonalize(o.sea_data, <<<<k, table>>>>, o.decomposition_method,
                o.params.seasonality_length, o.steps).predicted[1][2]

\* C24: after a successful predict() on a seasonal series, the predicted
\* mapping has exactly the keys of the fitted mapping, each once; the forecast
\* of a key without the suffix tag is its model's forecast passed through
\* reseasonalize once, the forecast of a key with the tag is its model's
\* forecast as returned.
C24_PredictPartitionsBySuffix ==
  (/\ last.op = "predict"
   /\ last.result = "ok"
   /\ self.seasonality) =>
    /\ SameKeys(self.predicted, self.fitted)
    /\ Len(self.predicted) = Len(self.fitted)
    /\ Distinct(DictKeys(self.predicted))
    /\ \A i \in 1..Len(self.predicted) :
         LET k == self.predicted[i][1]
             t == self.predicted[i][2]
         IN  IF SuffixTagged(k)
             THEN t = RawForecast(self, k)
             ELSE t = ReseasonalizedOnce(self, k, RawForecast(self, k))

\* two steps, multiplicative: one pass changes the table and a second pass
\* would change it again
C24_Witness ==
  /\ last.op = "predict"
  /\ last.result = "ok"
  /\ self.seasonality
  /\ self.steps = 2
  /\ self.decomposition_method = "multiplicative"
  /\ DictKeys(self.fitted) = <<<<"holtwinters">>, <<"prophet">>, <<"prophet", "smodel">>>>
  /\ LET raw == RawForecast(self, <<"holtwinters">>)
         once == ReseasonalizedOnce(self, <<"holtwinters">>, raw)
     IN  /\ DictGet(self.predicted, <<"holtwinters">>) = once
         /\ once # raw
         /\ ReseasonalizedOnce(self, <<"holtwinters">>, once) # once
  /\ DictGet(self.predicted, <<"prophet", "smodel">>) =
       RawForecast(self, <<"prophet", "smodel">>)
  /\ ReseasonalizedOnce(self, <<"prophet", "smodel">>,
                        RawForecast(self, <<"prophet", "smodel">>))
       # RawForecast(self, <<"prophet", "smodel">>)

\* the seasonal value of forecast row i (from 1): position n - p + ((i - 1)
\* mod p) of the component, counted from 0
SeasonalAt(sea_data, p, i) == sea_data[Len(sea_data) - p + ((i - 1) % p) + 1]

\* x and the seasonal value s, added or multiplied
Recombined(method, x, s) == IF method = "additive" THEN RAdd(x, s) ELSE RMul(x, s)

PointForecastRecombined(o, m) ==
  \A i \in 1..o.steps :
    o.predicted[m][2].fcst[i] =
      Recombined(o.decomposition_method, o.desea_predict[m][2].fcst[i],
                 SeasonalAt(o.sea_data, o.params.seasonality_length[1], i))

\* C25: for a seasonal component of length n, a period p with 1 <= p <= n and
\* steps >= 1, 1 + floor(steps/p) repetitions of the last p values are at
\* least steps values, cut to exactly steps; row i of every forecast is
\* combined with the component's value at n - p + (i mod p), by addition in
\* additive mode and by multiplication in multiplicative mode, in fcst and,
\* when the forecast has both bounds, in fcst_lower and fcst_upper alike.
C25_TiledSeasonalValues ==
  pc = "reseasonalized" =>
    LET p == params.seasonality_length[1]
        steps == self.steps
    IN  /\ last.result = "ok"
        /\ (1 + steps \div p) * p >= steps
        /\ Len(Tile(LastN(self.sea_data, p), Repetitions(steps, p))) >= steps
        /\ Len(SeasonalTile(self.sea_data, p, steps)) = steps
        /\ DictKeys(self.predicted) = DictKeys(self.desea_predict)
        /\ \A m \in 1..Len(self.predicted) :
             LET given == self.desea_predict[m][2]
                 t == self.predicted[m][2]
             IN  /\ Len(t.fcst) = steps
                 /\ PointForecastRecombined(self, m)
                 /\ {"fcst_lower", "fcst_upper"} \subseteq given.columns =>
                      \A i \in 1..steps :
                        /\ t.fcst_lower[i] =
                             Recombined(self.decomposition_method, given.fcst_lower[i],
                                        SeasonalAt(self.sea_data, p, i))
                        /\ t.fcst_upper[i] =
                             Recombined(self.decomposition_method, given.fcst_upper[i],
                                        SeasonalAt(self.sea_data, p, i))

\* three steps on a period of two taken from a component of three values
C25_Witness ==
  /\ pc = "reseasonalized"
  /\ data = <<Num(3), Zero, Num(1)>>
  /\ params.seasonality_length = Some(2)
  /\ params.decomposition_method = "multiplicative"
  /\ self.steps = 3
  /\ self.predicted[2][2].fcst = <<Zero, Num(3), Zero>>
  /\ self.predicted[2][2].fcst_lower = <<Zero, Num(2), Zero>>
  /\ self.predicted[2][2].fcst_upper = <<Zero, Num(4), Zero>>

\* C26: a forecast without fcst_lower or without fcst_upper comes back from
\* reseasonalize with both bound columns in every row, not-a-number in
\* additive mode and zero in multiplicative mode, its point forecast combined
\* with the seasonal values as for any forecast.
C26_MissingBoundsFilled ==
  pc = "reseasonalized" =>
    \A m \in 1..Len(self.predicted) :
      LET given == self.desea_predict[m][2]
          t == self.predicted[m][2]
          fill == IF self.decomposition_method = "additive" THEN NaN ELSE Zero
      IN  ~({"fcst_lower", "fcst_upper"} \subseteq given.columns) =>
            /\ {"fcst", "fcst_lower", "fcst_upper"} \subseteq t.columns
            /\ Len(t.fcst_lower) = self.steps
            /\ Len(t.fcst_upper) = self.steps
            /\ \A i \in 1..self.steps :
                 /\ t.fcst_lower[i] = fill
                 /\ t.fcst_upper[i] = fill
            /\ PointForecastRecombined(self, m)

\* a forecast that has its lower bound only, in multiplicative mode
C26_Witness ==
  /\ pc = "reseasonalized"
  /\ params.decomposition_method = "multiplicative"
  /\ params.seasonality_length = Some(2)
  /\ data = <<Num(1), Num(3), Num(3)>>
  /\ self.steps = 2
  /\ self.desea_predict[1][2].columns = {"fcst", "fcst_lower"}
  /\ self.predicted[1][2].fcst = <<Num(6), Num(9)>>
  /\ self.predicted[1][2].fcst_lower = <<Zero, Zero>>
  /\ self.predicted[1][2].fcst_upper = <<Zero, Zero>>

\* C27: on a constructed ensemble a configured seasonality_length is a
\* positive integer, a construction with a length of zero or below having
\* been rejected; reseasonalize is never reached with a period that steps
\* cannot be divided by.
C27_SeasonalityLengthPositive ==
  /\ pc = "ready" =>
       \/ params.seasonality_length = None
       \/ params.seasonality_length[1] >= 1
  /\ (/\ params.seasonality_length # None
      /\ params.seasonality_length[1] <= 0
      /\ pc # "new") =>
       /\ pc = "failed"
       /\ last.result = "ValueError"
  /\ last.result # "ZeroDivisionError"

\* C28: the calls on an ensemble are ordered.  fitted is stored by a
\* successful fit() and by nothing else, forecast() included; predicted by a
\* successful predict() or forecast() and by nothing else; fcst_df by a
\* successful aggregate() and by nothing else.  A predict() succeeds only on
\* an ensemble a fit() has succeeded on, an aggregate() only on one a
\* predict() or forecast() has succeeded on; a predict() or aggregate() in
\* another order fails and leaves the stored forecasts as they were.
C28_CallOrder ==
  [][/\ ~SameAttr(self, self', "fitted") =>
          last'.op = "fit" /\ last'.result = "ok"
     /\ (last'.op = "fit" /\ last'.result = "ok") => HasAttr(self', "fitted")
     /\ last'.op = "forecast" => SameAttr(self, self', "fitted")
     /\ ~SameAttr(self, self', "predicted") =>
          last'.op \in {"predict", "forecast"} /\ last'.result = "ok"
     /\ (last'.op \in {"predict", "forecast"} /\ last'.result = "ok") =>
          HasAttr(self', "predicted")
     /\ ~SameAttr(self, self', "fcst_df") =>
          last'.op = "aggregate" /\ last'.result = "ok"
     /\ (last'.op = "predict" /\ last'.result = "ok") => HasAttr(self, "fitted")
     /\ (last'.op = "predict" /\ ~HasAttr(self, "fitted")) =>
          /\ last'.result # "ok"
          /\ SameAttr(self, self', "predicted")
          /\ SameAttr(self, self', "fcst_df")
     /\ (last'.op = "aggregate" /\ last'.result = "ok") => HasAttr(self, "predicted")
     /\ (last'.op = "aggregate" /\ ~HasAttr(self, "predicted")) =>
          /\ last'.result # "ok"
          /\ ~HasAttr(self', "fcst_df")
     /\ pc = "new" =>
          /\ ~HasAttr(self', "fitted")
          /\ ~HasAttr(self', "predicted")
          /\ ~HasAttr(self', "fcst_df")]_vars

\* a predict() after a forecast() and an aggregate(), no fit() having succeeded
C28_Witness ==
  /\ pc = "ready"
  /\ last.op = "predict"
  /\ last.result = "AttributeError"
  /\ ~HasAttr(self, "fitted")
  /\ HasAttr(self, "predicted")
  /\ HasAttr(self, "fcst_df")
  /\ params.models = <<<<"prophet">>>>

\* C29: whenever per-model forecasts are stored, the stored steps is the
\* number of rows of every one of them, also after a predict() or forecast()
\* that failed; an aggregate() never puts the future dates of one horizon
\* beside forecasts of another.
C29_StepsMatchForecastRows ==
  (pc = "ready" /\ HasAttr(self, "predicted")) =>
    /\ HasAttr(self, "steps")
    /\ \A m \in 1..Len(self.predicted) :
         Len(self.predicted[m][2].fcst) = self.steps
    /\ (last.op = "aggregate" /\ HasAttr(self, "dates")) =>
         \A m \in 1..Len(self.predicted) :
           Len(self.predicted[m][2].fcst) = Len(self.dates)

\* C30: the table of a predict(steps, include_history=True) has len(series)
\* + steps rows; not-a-number stands in fcst, fcst_lower and fcst_upper of
\* exactly its first k rows, k = max(p, d, q) + max(P, D, Q) * seasonal
\* period + 1, and row k and the rows after it are as the model gave them.
C30_FirstKRowsBlanked ==
  (/\ pc = "sarima"
   /\ last.op = "predict"
   /\ last.result = "ok"
   /\ self.include_history) =>
    LET t == self.fcst_df
        n == Len(data)
        steps == Len(self.y_fcst)
        k == Max3(params.p, params.d, params.q)
             + Max3(params.seasonal_order[1], params.seasonal_order[2],
                    params.seasonal_order[3]) * params.seasonal_order[4]
             + 1
        given == [fcst |-> SarimaHistory(data).mean \o self.y_fcst,
                  fcst_lower |-> SarimaHistory(data).lower \o self.y_fcst_lower,
                  fcst_upper |-> SarimaHistory(data).upper \o self.y_fcst_upper]
    IN  /\ Len(t.time) = n + steps
        /\ \A c \in {"fcst", "fcst_lower", "fcst_upper"} :
             /\ Len(t[c]) = n + steps
             /\ \A i \in 1..(n + steps) :
                  IF i <= k THEN IsNaN(t[c][i])
                  ELSE t[c][i] = given[c][i] /\ ~IsNaN(t[c][i])

====
